---- MODULE Spec2Model ----
(***************************************************************************)
(* Model of nativescript-webview-interface: the bridge between a host      *)
(* application and a web view (webviewinterface-common.ts and the Android  *)
(* and iOS adapters).                                                      *)
(*                                                                         *)
(* A JavaScript string is a sequence of tokens (pieces of text), so that   *)
(* concatenation is \o and JSON.parse can take a text apart.  A JavaScript *)
(* value is a record of one shape: t is the typeof tag, c is String(value) *)
(* and reqId/isError/response/eventName/resId are the properties the code  *)
(* reads from parsed objects (pairs <<t, c>>, the pair U when the property *)
(* is absent).                                                             *)
(***************************************************************************)
EXTENDS Integers, Sequences, FiniteSets, TLC

\* ------------------------------------------------------------------ bounds
MaxInstances == 2
MaxReqs == 2
MaxListeners == 2
MaxInFlight == 1
MaxChars == 2

\* ------------------------------------------------------------ JS values
Reserved == "_jsCallResponse"
Objs == 1..MaxInstances

U == <<"undefined", <<"undefined">>>>
Mk(t, c) ==
  [t |-> t, c |-> c, reqId |-> U, isError |-> U, response |-> U,
   eventName |-> U, resId |-> U]
Str(c) == Mk("string", c)
Undefined == Mk("undefined", <<"undefined">>)
False == Mk("boolean", <<"false">>)
FromPair(p) == Mk(p[1], p[2])

\* ToBoolean of a value with typeof tag t and string form c
Falsy(t, c) ==
  \/ t \in {"undefined", "null"}
  \/ t = "boolean" /\ c = <<"false">>
  \/ t = "number" /\ c \in {<<"0">>, <<"NaN">>}
  \/ t = "string" /\ c = <<>>

Truthy(v) == ~Falsy(v.t, v.c)

\* ---------------------------------------------------------------- JSON
Quote == "\""
KeyReqId == "\"reqId\":"
KeyIsError == ",\"isError\":"
KeyResponse == ",\"response\":"
KeyEventName == "\"eventName\":"
KeyResId == ",\"resId\":"
NumberTexts == {<<"0">>, <<"1">>, <<"5">>}
BooleanTexts == {<<"true">>, <<"false">>}

\* JSON.stringify of a scalar <<t, c>> whose text needs no escaping
StringifyPair(p) == IF p[1] = "string" THEN <<Quote>> \o p[2] \o <<Quote>> ELSE p[2]

EnvelopeObj(r, e, v) ==
  [t |-> "object", c |-> <<"[object Object]">>, reqId |-> r, isError |-> e,
   response |-> v, eventName |-> U, resId |-> U]
\* JSON.stringify({reqId: r, isError: e, response: v})
EnvelopeText(r, e, v) ==
  <<"{", KeyReqId>> \o StringifyPair(r) \o <<KeyIsError>> \o StringifyPair(e)
    \o <<KeyResponse>> \o StringifyPair(v) \o <<"}">>

IosReqObj(e, n) ==
  [t |-> "object", c |-> <<"[object Object]">>, reqId |-> U, isError |-> U,
   response |-> U, eventName |-> e, resId |-> n]
\* JSON.stringify({eventName: e, resId: n})
IosReqText(e, n) ==
  <<"{", KeyEventName>> \o StringifyPair(e) \o <<KeyResId>> \o StringifyPair(n)
    \o <<"}">>

PlainObjText == <<"{", "\"n\":", "1", "}">>

IsScalarText(x) ==
  \/ x \in NumberTexts \cup BooleanTexts \cup {<<"null">>}
  \/ /\ Len(x) >= 2
     /\ x[1] = Quote
     /\ x[Len(x)] = Quote
     /\ \A i \in 2..Len(x) - 1 : x[i] # Quote

ParseScalar(x) ==
  IF x \in NumberTexts THEN <<"number", x>>
  ELSE IF x \in BooleanTexts THEN <<"boolean", x>>
  ELSE IF x = <<"null">> THEN <<"null", x>>
  ELSE <<"string", SubSeq(x, 2, Len(x) - 1)>>

\* the first position of token k in x, 0 when there is none
IndexOf(x, k) ==
  IF \E i \in 1..Len(x) : x[i] = k
  THEN CHOOSE i \in 1..Len(x) : x[i] = k /\ \A j \in 1..i - 1 : x[j] # k
  ELSE 0

\* x is the text of an object with members k1 and k2 (k3 = "": no third)
IsObjectText(x, k1, k2, k3) ==
  LET i == IndexOf(x, k2)
      j == IF k3 = "" THEN Len(x) ELSE IndexOf(x, k3)
  IN /\ Len(x) >= 6
     /\ x[1] = "{" /\ x[Len(x)] = "}" /\ x[2] = k1
     /\ 3 < i /\ i < j
     /\ IsScalarText(SubSeq(x, 3, i - 1))
     /\ IsScalarText(SubSeq(x, i + 1, j - 1))
     /\ k3 # "" => IsScalarText(SubSeq(x, j + 1, Len(x) - 1))

IsEnvelopeText(x) == IsObjectText(x, KeyReqId, KeyIsError, KeyResponse)
IsIosReqText(x) == IsObjectText(x, KeyEventName, KeyResId, "")

\* JSON.parse accepts the text
IsJSON(x) ==
  IsScalarText(x) \/ x = PlainObjText \/ IsEnvelopeText(x) \/ IsIosReqText(x)

\* JSON.parse of a text it accepts
JSONparse(x) ==
  IF IsScalarText(x) THEN FromPair(ParseScalar(x))
  ELSE IF x = PlainObjText THEN Mk("object", <<"[object Object]">>)
  ELSE IF IsEnvelopeText(x)
  THEN LET i == IndexOf(x, KeyIsError)
           j == IndexOf(x, KeyResponse)
       IN EnvelopeObj(ParseScalar(SubSeq(x, 3, i - 1)),
                      ParseScalar(SubSeq(x, i + 1, j - 1)),
                      ParseScalar(SubSeq(x, j + 1, Len(x) - 1)))
  ELSE LET i == IndexOf(x, KeyResId)
       IN IosReqObj(ParseScalar(SubSeq(x, 3, i - 1)),
                    ParseScalar(SubSeq(x, i + 1, Len(x) - 1)))

\* parseJSON: JSON.parse(data), false when it throws
parseJSON(data) == IF IsJSON(data.c) THEN JSONparse(data.c) ELSE False

\* const oData = parseJSON(data) || data
DecodePayload(data) ==
  CHOOSE v \in {IF Truthy(p) THEN p ELSE data : p \in {parseJSON(data)}} : TRUE

\* request ids as _prepareJSFunctionCall composes them
ReqIdOf(id, n) == <<ToString(id), "#", ToString(n)>>

\* ------------------------------------------------------- script codec
\* in the scripts of emit and callJSFunction a text is a sequence of
\* characters; a payload is a JSON value: a number, a boolean, null, a string
\* (body: its characters) or the object {"k": string} (body: the characters
\* of the member)
Backslash == "\\"
CodecValue(kind, body) == [kind |-> kind, body |-> body]
Invalid == CodecValue("invalid", <<>>)

\* the escaping JSON.stringify applies to the characters of a string
RECURSIVE Escape(_)
Escape(x) ==
  IF x = <<>> THEN <<>>
  ELSE (IF Head(x) \in {Quote, Backslash} THEN <<Backslash, Head(x)>>
        ELSE <<Head(x)>>) \o Escape(Tail(x))

\* JSON.stringify(x) for a string x
StringLiteral(x) == <<Quote>> \o Escape(x) \o <<Quote>>

\* JSON.stringify(v) for a payload v
JSONstringify(v) ==
  IF v.kind = "string" THEN StringLiteral(v.body)
  ELSE IF v.kind = "object"
  THEN <<"{">> \o StringLiteral(<<"k">>) \o <<":">> \o StringLiteral(v.body)
         \o <<"}">>
  ELSE v.body

\* _prepareEmitEventJSCall(eventName, data)
PrepareEmitEventJSCall(eventName, data) ==
  <<"window.nsWebViewInterface._onNativeEvent(">> \o StringLiteral(eventName)
    \o <<", ">> \o StringLiteral(JSONstringify(data)) \o <<");">>

\* the script _prepareJSFunctionCall returns for function f without arguments
PrepareJSFunctionCall(reqId) ==
  <<"window.nsWebViewInterface._callJSFunction(">> \o StringLiteral(reqId)
    \o <<", ">> \o StringLiteral(<<"f">>) \o <<", ", "[", "]", ");">>

\* the position of the quote that closes a string literal, scanning from j;
\* 0 when the text ends first
RECURSIVE LiteralEnd(_, _)
LiteralEnd(x, j) ==
  IF j > Len(x) THEN 0
  ELSE IF x[j] = Backslash THEN LiteralEnd(x, j + 2)
  ELSE IF x[j] = Quote THEN j
  ELSE LiteralEnd(x, j + 1)

\* the characters a string literal body stands for
RECURSIVE Unescape(_)
Unescape(y) ==
  IF y = <<>> THEN <<>>
  ELSE IF Head(y) = Backslash /\ Len(y) >= 2
  THEN <<y[2]>> \o Unescape(SubSeq(y, 3, Len(y)))
  ELSE <<Head(y)>> \o Unescape(Tail(y))

\* x is exactly one string literal
IsLiteral(x) == Len(x) >= 2 /\ x[1] = Quote /\ LiteralEnd(x, 2) = Len(x)

\* JSON.parse of a payload text
ParseValue(t) ==
  IF IsLiteral(t) THEN CodecValue("string", Unescape(SubSeq(t, 2, Len(t) - 1)))
  ELSE IF /\ Len(t) >= 8
          /\ SubSeq(t, 1, 5) = <<"{", Quote, "k", Quote, ":">>
          /\ t[Len(t)] = "}"
          /\ IsLiteral(SubSeq(t, 6, Len(t) - 1))
  THEN CodecValue("object", Unescape(SubSeq(t, 7, Len(t) - 2)))
  ELSE IF t \in NumberTexts THEN CodecValue("number", t)
  ELSE IF t \in BooleanTexts THEN CodecValue("boolean", t)
  ELSE IF t = <<"null">> THEN CodecValue("null", t)
  ELSE Invalid

\* what the web view makes of an emit script: the two arguments of
\* _onNativeEvent evaluated as string literals, the second then JSON-parsed
DecodeEmitScript(s) ==
  LET n1 == IF Len(s) >= 3 /\ s[2] = Quote THEN LiteralEnd(s, 3) ELSE 0
      n2 == IF n1 > 0 /\ Len(s) >= n1 + 3 /\ s[n1 + 2] = Quote
            THEN LiteralEnd(s, n1 + 3) ELSE 0
  IN IF /\ n1 > 0 /\ n2 > 0
        /\ s[1] = "window.nsWebViewInterface._onNativeEvent("
        /\ s[n1 + 1] = ", "
        /\ n2 + 1 = Len(s)
        /\ s[n2 + 1] = ");"
     THEN [eventName |-> Unescape(SubSeq(s, 3, n1 - 1)),
           payload |-> ParseValue(Unescape(SubSeq(s, n1 + 3, n2 - 1)))]
     ELSE [eventName |-> <<>>, payload |-> Invalid]

\* strings of at most n characters
RECURSIVE CharStrings(_)
CharStrings(n) ==
  IF n = 0 THEN {<<>>}
  ELSE CharStrings(n - 1)
         \cup {Append(x, c) : x \in CharStrings(n - 1), c \in {"a", Quote, Backslash}}

\* the payloads and event names given to emit
CodecPayloads ==
  {CodecValue(k, x) : k \in {"string", "object"}, x \in CharStrings(MaxChars)}
    \cup {CodecValue("number", t) : t \in NumberTexts}
    \cup {CodecValue("boolean", t) : t \in BooleanTexts}
    \cup {CodecValue("null", <<"null">>)}
CodecEventNames == {<<"p", "i", "n", "g">>, <<"a", Quote>>}

\* ------------------------------------------------------------- inputs
EventNames == {"ping", Reserved}
\* a second event of the host, and all keys the listener map is modelled for
OtherEvent == "pong"
ListenerKeys == EventNames \cup {OtherEvent}
Handlers == {"h1", "h2"}
NoHandler == "none"
SuccessCallbacks == {"onOk"}
ErrorCallbacks == {"onErr"}

\* values a handler may return: false, the other falsy values and a truthy one
ReturnValues ==
  {False, Undefined, Mk("number", <<"0">>), Mk("null", <<"null">>), Str(<<>>),
   Mk("boolean", <<"true">>)}

\* payload texts: JSON that decodes to 0, false, null, "", 1 and {n:1}, and
\* plain text
EventPayloadTexts ==
  {<<"0">>, <<"false">>, <<"null">>, <<Quote, Quote>>, <<"1">>, PlainObjText,
   <<"hello">>}
EventPayloads == {Str(s) : s \in EventPayloadTexts}

\* the response envelopes for the request ids rs
ResponsePayloads(rs) ==
  {Str(EnvelopeText(<<"string", r>>, <<"boolean", <<e>>>>, <<"number", <<"5">>>>)) :
     r \in rs, e \in {"true", "false"}}

\* ------------------------------------------------------------- maps
\* a Map is a set of <<key, value>> pairs with at most one pair per key
MapHas(m, k) == \E p \in m : p[1] = k
MapGet(m, k) == (CHOOSE p \in m : p[1] = k)[2]
MapSet(m, k, v) == {p \in m : p[1] # k} \cup {<<k, v>>}
MapDelete(m, k) == {p \in m : p[1] # k}
MapKeys(m) == {p[1] : p \in m}

\* ------------------------------------------------------------- state
VARIABLES
  platform,                       \* which adapter this process was built with
  cntWebViewId,                   \* let cntWebViewId
  cntJSCallReqId,                 \* let cntJSCallReqId
  webViewInterfaceIdMap,          \* static Map id -> instance
  constructed,                    \* the instances created so far
  id,                             \* this.id of each instance
  eventListenerMap,               \* per instance: event name -> handler array
  jsCallReqIdSuccessCallbackMap,  \* per instance: request id -> success handler
  jsCallReqIdErrorCallbackMap,    \* per instance: request id -> error handler
  webView,                        \* per instance: the web view it is attached to
  iosPending,                     \* iOS: _getIOSResponse round trips in flight
  disp,                           \* the inbound message being handled, if any
  trace,                          \* handlers and callbacks invoked for it so far
  thrown,                         \* error thrown by the last operation
  destroyed,                      \* history: instances destroy() was called on
  destroyedWith,                  \* history: events that had handlers at destroy()
  issued,                         \* history: <<request id, instance>> issued, in order
  execFailed,                     \* history: request ids whose injection failed
  executed,                       \* history: the calls of _executeJS by emit/call
  lastScript,                     \* the script of the latest call of _executeJS
  respSeen,                       \* history: a response named a pending id
  cbLog                           \* history: call callbacks invoked

coreVars ==
  <<cntWebViewId, cntJSCallReqId, webViewInterfaceIdMap, constructed, id,
    eventListenerMap, jsCallReqIdSuccessCallbackMap,
    jsCallReqIdErrorCallbackMap>>
histVars ==
  <<destroyed, destroyedWith, issued, execFailed, executed, lastScript,
    respSeen, cbLog>>
vars ==
  <<platform, coreVars, webView, iosPending, disp, trace, thrown, histVars>>

NoListeners == [e \in ListenerKeys |-> <<>>]

\* srcSets counts the assignments this.webView.src = src of the adapters and
\* srcEarly says that one of them came before addJavascriptInterface
NoWebView ==
  [isLoaded |-> FALSE, src |-> "", jsInterface |-> FALSE,
   loadedListener |-> FALSE, srcArg |-> "", loadStartedListener |-> FALSE,
   wk |-> FALSE, srcSets |-> 0, srcEarly |-> FALSE]

Idle ==
  [active |-> FALSE, webViewId |-> 0, obj |-> 0, event |-> "", data |-> Undefined,
   oData |-> Undefined, list |-> <<>>, idx |-> 1, broken |-> FALSE,
   lastRet |-> Undefined, shared |-> FALSE, reentered |-> FALSE,
   afterDestroy |-> FALSE, wasPending |-> FALSE, repeat |-> FALSE]

Init ==
  /\ platform \in {"android", "ios"}
  /\ cntWebViewId = 0
  /\ cntJSCallReqId = 0
  /\ webViewInterfaceIdMap = {}
  /\ constructed = {}
  /\ id = [o \in Objs |-> 0]
  /\ eventListenerMap = [o \in Objs |-> NoListeners]
  /\ jsCallReqIdSuccessCallbackMap = [o \in Objs |-> {}]
  /\ jsCallReqIdErrorCallbackMap = [o \in Objs |-> {}]
  /\ webView = [o \in Objs |-> NoWebView]
  /\ iosPending = {}
  /\ disp = Idle
  /\ trace = <<>>
  /\ thrown = "none"
  /\ destroyed = {}
  /\ destroyedWith = [o \in Objs |-> {}]
  /\ issued = <<>>
  /\ execFailed = {}
  /\ executed = {}
  /\ lastScript = <<>>
  /\ respSeen = FALSE
  /\ cbLog = <<>>

\* Host code runs at top level between inbound messages, or inside a handler
\* or callback that an inbound message has invoked (one UI thread).
HostCanRun == ~disp.active \/ Len(trace) > 0

\* the adapter's inbound callbacks run at top level only
LoopIdle == ~disp.active

\* --------------------------------------------------------- construction
\* if (src) { this.webView.src = src; } on a web view record
SetSrc(w) ==
  IF w.srcArg # ""
  THEN [w EXCEPT !.src = w.srcArg, !.srcSets = w.srcSets + 1,
                 !.srcEarly = w.srcEarly \/ ~w.jsInterface]
  ELSE w

\* this.webView.android.addJavascriptInterface(oJSInterface, ...)
AddJavascriptInterface(w) == [w EXCEPT !.jsInterface = TRUE]

\* a _setAndroidWebViewSettings that sets src before it adds the interface
SetAndroidWebViewSettingsSrcFirst(w) == AddJavascriptInterface(SetSrc(w))

\* _setAndroidWebViewSettings(src) on a web view record
SetAndroidWebViewSettings(w) == SetSrc(AddJavascriptInterface(w))

\* _initWebView(src) on a web view record
InitWebView(w) ==
  IF w.isLoaded THEN SetAndroidWebViewSettings(w)
  ELSE [w EXCEPT !.loadedListener = TRUE]

\* the iOS constructor body after super()
InitIos(w) == SetSrc([w EXCEPT !.loadStartedListener = TRUE])

\* an id taken from the number of instances registered at the moment
NextIdFromRegistered == Cardinality(webViewInterfaceIdMap) + 1

\* ++cntWebViewId
NextId == cntWebViewId + 1

\* new WebViewInterface(webview, src); loaded is webview.isLoaded and wk says
\* whether webview.ios is a WKWebView
Construct(o, src, loaded, wk) ==
  /\ HostCanRun
  /\ o \notin constructed
  /\ o = Cardinality(constructed) + 1
  /\ cntWebViewId' = NextId
  /\ id' = [id EXCEPT ![o] = NextId]
  /\ webViewInterfaceIdMap' = MapSet(webViewInterfaceIdMap, NextId, o)
  /\ constructed' = constructed \cup {o}
  /\ webView' =
       [webView EXCEPT ![o] =
          IF platform = "android"
          THEN InitWebView([NoWebView EXCEPT !.isLoaded = loaded, !.srcArg = src])
          ELSE InitIos([NoWebView EXCEPT !.srcArg = src, !.wk = wk])]
  /\ thrown' = "none"
  /\ UNCHANGED <<platform, cntJSCallReqId, eventListenerMap,
                 jsCallReqIdSuccessCallbackMap, jsCallReqIdErrorCallbackMap,
                 iosPending, disp, trace, histVars>>

\* the WebView.loadedEvent listener registered by _initWebView
AndroidLoaded(o) ==
  /\ LoopIdle
  /\ platform = "android"
  /\ o \in constructed
  /\ webView[o].loadedListener
  /\ webView' =
       [webView EXCEPT ![o] =
          [SetAndroidWebViewSettings([webView[o] EXCEPT !.isLoaded = TRUE])
             EXCEPT !.loadedListener = FALSE]]
  /\ thrown' = "none"
  /\ UNCHANGED <<platform, coreVars, iosPending, disp, trace, histVars>>

\* ------------------------------------------------------------ on / off
\* the array eventListenerMap.get(eventName) || []
ListenersOf(o, e) == IF e \in ListenerKeys THEN eventListenerMap[o][e] ELSE <<>>

\* the message being dispatched iterates the very array the map holds for e
IteratingArrayOf(o, e) ==
  disp.active /\ disp.obj = o /\ disp.event = e /\ disp.shared

\* a host call made while a dispatch on o is in progress
Reenter(o) == disp.active /\ disp.obj = o

\* on() and off() without the check of the reserved name
IsReservedNameUnchecked(e) == FALSE

\* eventName === '_jsCallResponse'
IsReservedName(e) == e = Reserved

\* on(eventName, callback)
On(o, e, h) ==
  /\ HostCanRun
  /\ o \in constructed
  /\ IF IsReservedName(e)
     THEN /\ thrown' = "Error"
          /\ UNCHANGED <<eventListenerMap, disp>>
     ELSE LET entry == [h |-> h, late |-> o \in destroyed]
              events == Append(ListenersOf(o, e), entry)
          IN /\ eventListenerMap' = [eventListenerMap EXCEPT ![o][e] = events]
             /\ disp' =
                  IF IteratingArrayOf(o, e)
                  THEN [disp EXCEPT !.list = Append(disp.list, entry),
                                    !.reentered = TRUE]
                  ELSE IF Reenter(o) THEN [disp EXCEPT !.reentered = TRUE]
                  ELSE disp
             /\ thrown' = "none"
  /\ UNCHANGED <<platform, cntWebViewId, cntJSCallReqId, webViewInterfaceIdMap,
                 constructed, id, jsCallReqIdSuccessCallbackMap,
                 jsCallReqIdErrorCallbackMap, webView, iosPending, trace,
                 histVars>>

\* the loop of off(): the handlers that are not callback, in order
RECURSIVE WithoutCallback(_, _)
WithoutCallback(list, h) ==
  IF list = <<>> THEN <<>>
  ELSE IF Head(list).h # h
       THEN <<Head(list)>> \o WithoutCallback(Tail(list), h)
       ELSE WithoutCallback(Tail(list), h)

\* an off(e, callback) that stops at the first occurrence of callback
OffResultFirstOnly(list, h) ==
  IF h = NoHandler THEN <<>>
  ELSE IF \E k \in 1..Len(list) : list[k].h = h
  THEN LET k == CHOOSE i \in 1..Len(list) :
                  list[i].h = h /\ \A j \in 1..i - 1 : list[j].h # h
       IN SubSeq(list, 1, k - 1) \o SubSeq(list, k + 1, Len(list))
  ELSE list

\* the listener array of e after off(e, callback); <<>> when the key is deleted
OffResult(list, h) ==
  IF h = NoHandler THEN <<>>
  ELSE IF list = <<>> THEN <<>>
  ELSE WithoutCallback(list, h)

\* off(eventName, callback?)
Off(o, e, h) ==
  /\ HostCanRun
  /\ o \in constructed
  /\ IF IsReservedName(e)
     THEN /\ thrown' = "Error"
          /\ UNCHANGED <<eventListenerMap, disp>>
     ELSE /\ eventListenerMap' =
               [eventListenerMap EXCEPT ![o][e] = OffResult(ListenersOf(o, e), h)]
          /\ disp' =
               IF Reenter(o)
               THEN [disp EXCEPT
                       !.reentered = TRUE,
                       \* a deleted key or a fresh array: the map no longer
                       \* holds the array under iteration
                       !.shared = disp.shared /\ ~(disp.event = e
                                      /\ (h = NoHandler \/ ListenersOf(o, e) # <<>>))]
               ELSE disp
          /\ thrown' = "none"
  /\ UNCHANGED <<platform, cntWebViewId, cntJSCallReqId, webViewInterfaceIdMap,
                 constructed, id, jsCallReqIdSuccessCallbackMap,
                 jsCallReqIdErrorCallbackMap, webView, iosPending, trace,
                 histVars>>

\* ------------------------------------------------ emit / callJSFunction
\* the adapter can reach the web view of o: on Android the interface object
\* was added by _setAndroidWebViewSettings; the iOS constructor needs no load
Ready(o) == platform = "ios" \/ webView[o].jsInterface

\* this._executeJS(strJSFunction) as called by operation op of o
ExecuteJS(o, op) == [obj |-> o, op |-> op, ready |-> Ready(o)]

\* an emit whose script quotes the stringified payload without escaping it
EmitScriptUnescaped(eventName, data) ==
  <<"window.nsWebViewInterface._onNativeEvent(">> \o StringLiteral(eventName)
    \o <<", ", Quote>> \o JSONstringify(data) \o <<Quote, ");">>

\* var strJSFunction = this._prepareEmitEventJSCall(eventName, data)
EmitScript(eventName, data) == PrepareEmitEventJSCall(eventName, data)

\* emit(eventName, data): the script goes to _executeJS at once and the
\* promise is dropped
Emit(o, eventName, data) ==
  /\ HostCanRun
  /\ o \in constructed
  /\ executed' = executed \cup {ExecuteJS(o, "emit")}
  /\ lastScript' = EmitScript(eventName, data)
  /\ thrown' = "none"
  /\ UNCHANGED <<platform, coreVars, webView, iosPending, disp, trace, destroyed,
                 destroyedWith, issued, execFailed, respSeen, cbLog>>

\* a request id built from the instance counter instead of the request counter
NextReqIdFromInstanceCounter(o) == ReqIdOf(id[o], cntWebViewId)

\* const reqId = `${this.id}#${++cntJSCallReqId}`
NextReqId(o) == ReqIdOf(id[o], cntJSCallReqId + 1)

\* a callJSFunction that removes the pending entry when the executor fails
AfterExecFailureCleansUp(m, reqId) == MapDelete(m, reqId)

\* what a rejected promise of _executeJS does to the pending entry of reqId
\* (callJSFunction drops the promise): nothing
AfterExecFailure(m, reqId) == m

\* a _prepareJSFunctionCall that stores the success handler only
SetErrorCallbackSkipped(m, reqId, errorHandler) == m

\* this.jsCallReqIdErrorCallbackMap.set(reqId, errorHandler)
SetErrorCallback(m, reqId, errorHandler) == MapSet(m, reqId, errorHandler)

\* callJSFunction(functionName, args, successHandler, errorHandler); execOk
\* says whether the promise of _executeJS resolves
CallJSFunction(o, onOk, onErr, execOk) ==
  /\ HostCanRun
  /\ o \in constructed
  /\ cntJSCallReqId' = cntJSCallReqId + 1
  /\ LET okMap == MapSet(jsCallReqIdSuccessCallbackMap[o], NextReqId(o), onOk)
         errMap == SetErrorCallback(jsCallReqIdErrorCallbackMap[o], NextReqId(o),
                                    onErr)
     IN /\ jsCallReqIdSuccessCallbackMap' =
             [jsCallReqIdSuccessCallbackMap EXCEPT
                ![o] = IF execOk THEN okMap
                       ELSE AfterExecFailure(okMap, NextReqId(o))]
        /\ jsCallReqIdErrorCallbackMap' =
             [jsCallReqIdErrorCallbackMap EXCEPT
                ![o] = IF execOk THEN errMap
                       ELSE AfterExecFailure(errMap, NextReqId(o))]
  /\ issued' = Append(issued, <<NextReqId(o), o>>)
  /\ execFailed' = IF execOk THEN execFailed ELSE execFailed \cup {NextReqId(o)}
  /\ executed' = executed \cup {ExecuteJS(o, "callJSFunction")}
  /\ lastScript' = PrepareJSFunctionCall(NextReqId(o))
  /\ thrown' = "none"
  /\ UNCHANGED <<platform, cntWebViewId, webViewInterfaceIdMap, constructed, id,
                 eventListenerMap, webView, iosPending, disp, trace, destroyed,
                 destroyedWith, respSeen, cbLog>>

\* -------------------------------------------------------------- destroy
\* a destroy() that leaves the listeners in place
ListenersAfterDestroyKept(m) == m

\* this.eventListenerMap.clear()
ListenersAfterDestroy(m) == NoListeners

\* a destroy() that leaves the pending calls in place
CallbacksAfterDestroyKept(m) == m

\* this.jsCallReqIdSuccessCallbackMap.clear() and
\* this.jsCallReqIdErrorCallbackMap.clear()
CallbacksAfterDestroy(m) == {}

\* destroy(), with the iOS override that first removes the loadStarted listener
Destroy(o) ==
  /\ HostCanRun
  /\ o \in constructed
  /\ webView' =
       [webView EXCEPT ![o] =
          [webView[o] EXCEPT
             !.src = "",
             !.loadStartedListener =
                IF platform = "ios" THEN FALSE ELSE webView[o].loadStartedListener]]
  /\ eventListenerMap' =
       [eventListenerMap EXCEPT ![o] = ListenersAfterDestroy(eventListenerMap[o])]
  /\ jsCallReqIdSuccessCallbackMap' =
       [jsCallReqIdSuccessCallbackMap EXCEPT
          ![o] = CallbacksAfterDestroy(jsCallReqIdSuccessCallbackMap[o])]
  /\ jsCallReqIdErrorCallbackMap' =
       [jsCallReqIdErrorCallbackMap EXCEPT
          ![o] = CallbacksAfterDestroy(jsCallReqIdErrorCallbackMap[o])]
  /\ webViewInterfaceIdMap' = MapDelete(webViewInterfaceIdMap, id[o])
  /\ disp' = IF Reenter(o)
             THEN [disp EXCEPT !.reentered = TRUE, !.shared = FALSE]
             ELSE disp
  /\ destroyed' = destroyed \cup {o}
  /\ destroyedWith' =
       IF o \in destroyed THEN destroyedWith
       ELSE [destroyedWith EXCEPT
               ![o] = {e \in ListenerKeys : ListenersOf(o, e) # <<>>}]
  /\ thrown' = "none"
  /\ UNCHANGED <<platform, cntWebViewId, cntJSCallReqId, constructed, id,
                 iosPending, trace, issued, execFailed, executed, lastScript,
                 respSeen,
                 cbLog>>

\* ------------------------------------------------------ _onWebViewEvent
\* let reqId = '"' + oData.reqId + '"'
ResponseKey(oData) == <<Quote>> \o oData.reqId[2] \o <<Quote>>

\* a _jsCallResponse branch that looks the id up as received and leaves the
\* entries in place
JsCallResponseKeepsEntries(okMap, errMap, oData) ==
  LET reqId == oData.reqId[2]
      fromMap == IF Truthy(FromPair(oData.isError)) THEN errMap ELSE okMap
  IN [found |-> MapHas(fromMap, reqId),
      callback |-> IF MapHas(fromMap, reqId) THEN MapGet(fromMap, reqId)
                   ELSE NoHandler,
      reqId |-> reqId,
      okMap |-> okMap,
      errMap |-> errMap]

\* the _jsCallResponse branch: the callback to call, if any, and both maps
\* after the two deletes
JsCallResponse(okMap, errMap, oData) ==
  LET reqId == ResponseKey(oData)
      fromMap == IF Truthy(FromPair(oData.isError)) THEN errMap ELSE okMap
  IN [found |-> MapHas(fromMap, reqId),
      callback |-> IF MapHas(fromMap, reqId) THEN MapGet(fromMap, reqId)
                   ELSE NoHandler,
      reqId |-> reqId,
      okMap |-> MapDelete(okMap, reqId),
      errMap |-> MapDelete(errMap, reqId)]

\* history: the request id the envelope names is pending on o
NamesPending(o, oData) ==
  MapHas(jsCallReqIdSuccessCallbackMap[o], oData.reqId[2])

\* one handler or callback invocation
Invocation(fn, arg, late, o) ==
  [fn |-> fn, arg |-> arg, late |-> late, dead |-> o \in destroyed]

\* the _jsCallResponse branch of _onWebViewEvent on instance o
HandleResponse(begun, o, oData, res) ==
  /\ jsCallReqIdSuccessCallbackMap' =
       [jsCallReqIdSuccessCallbackMap EXCEPT ![o] = res.okMap]
  /\ jsCallReqIdErrorCallbackMap' =
       [jsCallReqIdErrorCallbackMap EXCEPT ![o] = res.errMap]
  /\ trace' =
       IF res.found
       THEN <<Invocation(res.callback, FromPair(oData.response), FALSE, o)>>
       ELSE <<>>
  /\ cbLog' = IF res.found THEN Append(cbLog, <<res.reqId, res.callback>>)
              ELSE cbLog
  /\ respSeen' = (respSeen \/ NamesPending(o, oData))
  /\ disp' = [begun EXCEPT !.wasPending = NamesPending(o, oData),
                           !.repeat = NamesPending(o, oData) /\ respSeen]
  /\ UNCHANGED eventListenerMap

\* oData.reqId throws a TypeError: oData is undefined or null
ReadThrows(oData) == oData.t \in {"undefined", "null"}

\* _onWebViewEvent(eventName, data) up to its first call into host code;
\* wid is the id the adapter addressed the message to
OnWebViewEvent(wid, o, e, data) ==
  \E oData \in {DecodePayload(data)} :
    LET begun == [Idle EXCEPT !.active = TRUE, !.webViewId = wid, !.obj = o,
                              !.event = e, !.data = data, !.oData = oData,
                              !.afterDestroy = o \in destroyed]
    IN IF e = Reserved /\ ReadThrows(oData)
       THEN /\ disp' = begun
            /\ trace' = <<>>
            /\ thrown' = "TypeError"
            /\ UNCHANGED <<eventListenerMap, jsCallReqIdSuccessCallbackMap,
                           jsCallReqIdErrorCallbackMap, cbLog, respSeen>>
       ELSE IF e = Reserved
       THEN /\ \E res \in {JsCallResponse(jsCallReqIdSuccessCallbackMap[o],
                                          jsCallReqIdErrorCallbackMap[o], oData)} :
                 HandleResponse(begun, o, oData, res)
            /\ thrown' = "none"
       ELSE /\ disp' = [begun EXCEPT !.list = ListenersOf(o, e), !.shared = TRUE]
            /\ trace' = <<>>
            /\ thrown' = "none"
            /\ UNCHANGED <<eventListenerMap, jsCallReqIdSuccessCallbackMap,
                           jsCallReqIdErrorCallbackMap, cbLog, respSeen>>

\* a loop that stops on any falsy return value: !event(oData)
StopsDispatchOnFalsy(ret) == ~Truthy(ret)

\* event(oData) === false
StopsDispatch(ret) == ret = False

\* one turn of the for-of loop: the next handler of the array is called and
\* returns ret
DispatchNext(ret) ==
  /\ disp.active
  /\ disp.obj # 0
  /\ disp.event # Reserved
  /\ ~disp.broken
  /\ disp.idx <= Len(disp.list)
  /\ trace' = Append(trace, Invocation(disp.list[disp.idx].h, disp.oData,
                                       disp.list[disp.idx].late, disp.obj))
  /\ disp' = [disp EXCEPT !.idx = disp.idx + 1, !.lastRet = ret,
                          !.broken = StopsDispatch(ret)]
  /\ thrown' = "none"
  /\ UNCHANGED <<platform, coreVars, webView, iosPending, histVars>>

\* _onWebViewEvent (or the adapter callback that dropped the message) returns
DispatchEnd ==
  /\ disp.active
  /\ \/ disp.obj = 0
     \/ disp.event = Reserved
     \/ disp.broken
     \/ disp.idx > Len(disp.list)
  /\ disp' = Idle
  /\ trace' = <<>>
  /\ thrown' = "none"
  /\ UNCHANGED <<platform, coreVars, webView, iosPending, histVars>>

\* ------------------------------------------------------ Android adapter
\* getWebViewIntefaceObjByWebViewId(webViewId); 0 stands for undefined
GetWebViewIntefaceObjByWebViewId(wid) ==
  IF MapHas(webViewInterfaceIdMap, wid) THEN MapGet(webViewInterfaceIdMap, wid)
  ELSE 0

\* onWebViewEvent(webViewId, eventName, jsonData) of the interface object that
\* instance src added to its web view
AndroidOnWebViewEvent(src, e, data) ==
  /\ LoopIdle
  /\ platform = "android"
  /\ src \in constructed
  /\ webView[src].jsInterface
  /\ LET oWebViewInterface == GetWebViewIntefaceObjByWebViewId(id[src])
     IN IF oWebViewInterface # 0
        THEN OnWebViewEvent(id[src], oWebViewInterface, e, data)
        ELSE /\ disp' = [Idle EXCEPT !.active = TRUE, !.webViewId = id[src],
                                     !.event = e, !.data = data]
             /\ trace' = <<>>
             /\ thrown' = "none"
             /\ UNCHANGED <<eventListenerMap, jsCallReqIdSuccessCallbackMap,
                            jsCallReqIdErrorCallbackMap, cbLog, respSeen>>
  /\ UNCHANGED <<platform, cntWebViewId, cntJSCallReqId, webViewInterfaceIdMap,
                 constructed, id, webView, iosPending, destroyed, destroyedWith,
                 issued, execFailed, executed, lastScript>>

\* ---------------------------------------------------------- iOS adapter
IosSchemes == {"js2ios:", "http:"}
IosBodies(es) ==
  {IosReqText(<<"string", <<e>>>>, <<"number", <<"1">>>>) : e \in es}
    \cup {<<"hello">>, <<"0">>}

\* an event name given as a string value, as a Map key
EventNameOf(p) == IF Len(p[2]) = 1 THEN p[2][1] ELSE ""

\* decodeURIComponent: the escapes %7B and %7D stand for the braces, a lone %
\* is malformed (URIError)
Malformed(x) == \E i \in 1..Len(x) : x[i] = "%"
DecodeURIComponent(x) ==
  [i \in 1..Len(x) |->
     IF x[i] = "%7B" THEN "{" ELSE IF x[i] = "%7D" THEN "}" ELSE x[i]]

\* an interceptor that takes every url for a request of the web view
IsRequestOfWebViewAlways(scheme) == TRUE

\* request.indexOf('js2ios:') === 0
IsRequestOfWebView(scheme) == scheme = "js2ios:"

\* a round trip of o for event e; seq tells apart the round trips of equal
\* requests that are in flight together
RoundTrip(o, e) ==
  [obj |-> o, eventName |-> e,
   seq |-> CHOOSE n \in 1..Cardinality(iosPending) + 1 :
             /\ [obj |-> o, eventName |-> e, seq |-> n] \notin iosPending
             /\ \A m \in 1..n - 1 :
                  [obj |-> o, eventName |-> e, seq |-> m] \in iosPending]

\* _interceptCallsFromWebview(args) for args.url = scheme + body
IosIntercept(o, scheme, body) ==
  /\ LoopIdle
  /\ platform = "ios"
  /\ o \in constructed
  /\ webView[o].loadStartedListener
  /\ IF ~IsRequestOfWebView(scheme)
     THEN thrown' = "none" /\ UNCHANGED iosPending
     ELSE IF Malformed(body)
     THEN thrown' = "URIError" /\ UNCHANGED iosPending
     ELSE \E oReqMsg \in {parseJSON(Str(DecodeURIComponent(body)))} :
            /\ thrown' = "none"
            /\ IF Truthy(oReqMsg)
               THEN iosPending' =
                      iosPending \cup {RoundTrip(o, EventNameOf(oReqMsg.eventName))}
               ELSE UNCHANGED iosPending
  /\ UNCHANGED <<platform, coreVars, webView, disp, trace, histVars>>

\* the promise of _executeJS('..._getIOSResponse(resId)') settles: with data
\* when ok, rejected otherwise (only WKWebView reports an error)
IosExecuteDone(p, data, ok) ==
  /\ LoopIdle
  /\ platform = "ios"
  /\ p \in iosPending
  /\ ok \/ webView[p.obj].wk
  /\ iosPending' = iosPending \ {p}
  /\ IF ok
     THEN OnWebViewEvent(id[p.obj], p.obj, p.eventName, data)
     ELSE /\ thrown' = "none"
          /\ UNCHANGED <<eventListenerMap, jsCallReqIdSuccessCallbackMap,
                         jsCallReqIdErrorCallbackMap, cbLog, respSeen, disp,
                         trace>>
  /\ UNCHANGED <<platform, cntWebViewId, cntJSCallReqId, webViewInterfaceIdMap,
                 constructed, id, webView, destroyed, destroyedWith, issued,
                 execFailed, executed, lastScript>>

\* ------------------------------------------------------------ behaviours
\* the instance the single-instance behaviours work on
RouterObjs == {1}

IssuedIds == {issued[k][1] : k \in 1..Len(issued)}

\* a request id no instance ever issues
UnknownReqId == <<"9", "#", "9">>

\* the call registry of one instance: calls whose injection succeeds or
\* fails, responses and destroys; the web view may finish loading later, and
\* an iOS round trip may pull undefined
NextCalls ==
  \/ \E o \in RouterObjs, b \in BOOLEAN :
       Construct(o, "", platform = "android" /\ b, platform = "ios" /\ b)
  \/ \E o \in RouterObjs : AndroidLoaded(o)
  \/ \E o \in RouterObjs, onOk \in SuccessCallbacks, onErr \in ErrorCallbacks,
        execOk \in BOOLEAN :
       cntJSCallReqId < MaxReqs /\ CallJSFunction(o, onOk, onErr, execOk)
  \/ \E o \in RouterObjs : Destroy(o)
  \/ \E o \in RouterObjs, data \in ResponsePayloads(IssuedIds \cup {UnknownReqId}) :
       AndroidOnWebViewEvent(o, Reserved, data)
  \/ \E o \in RouterObjs, scheme \in IosSchemes, body \in IosBodies({Reserved}) :
       Cardinality(iosPending) < MaxInFlight /\ IosIntercept(o, scheme, body)
  \/ \E p \in iosPending, ok \in BOOLEAN,
        data \in ResponsePayloads(IssuedIds \cup {UnknownReqId}) \cup {Undefined} :
       IosExecuteDone(p, data, ok)
  \/ DispatchEnd

SpecCalls == Init /\ [][NextCalls]_vars

\* request ids across instances: constructions, calls, destroys and
\* responses, addressed to any instance
NextIds ==
  \/ \E o \in Objs : Construct(o, "", platform = "android", platform = "ios")
  \/ \E o \in Objs, onOk \in SuccessCallbacks, onErr \in ErrorCallbacks :
       cntJSCallReqId < MaxReqs /\ CallJSFunction(o, onOk, onErr, TRUE)
  \/ \E o \in Objs : Destroy(o)
  \/ \E o \in Objs, data \in ResponsePayloads(IssuedIds) :
       AndroidOnWebViewEvent(o, Reserved, data)
  \/ \E o \in Objs, body \in IosBodies({Reserved}) :
       Cardinality(iosPending) < MaxInFlight /\ IosIntercept(o, "js2ios:", body)
  \/ \E p \in iosPending, data \in ResponsePayloads(IssuedIds) :
       IosExecuteDone(p, data, TRUE)
  \/ DispatchEnd

SpecIds == Init /\ [][NextIds]_vars

\* the event router of one instance: listeners come and go, messages for the
\* events of the host are dispatched; the web view is ready at construction
UserEvents == EventNames \ {Reserved}
NextEvents ==
  \/ \E o \in RouterObjs :
       Construct(o, "", platform = "android", platform = "ios")
  \/ \E o \in RouterObjs, e \in UserEvents, h \in Handlers :
       Len(ListenersOf(o, e)) < MaxListeners /\ On(o, e, h)
  \/ \E o \in RouterObjs, e \in UserEvents, h \in Handlers \cup {NoHandler} :
       Off(o, e, h)
  \/ \E o \in RouterObjs : Destroy(o)
  \/ \E o \in RouterObjs, e \in UserEvents, data \in EventPayloads :
       AndroidOnWebViewEvent(o, e, data)
  \/ \E o \in RouterObjs, scheme \in IosSchemes, body \in IosBodies(UserEvents) :
       Cardinality(iosPending) < MaxInFlight /\ IosIntercept(o, scheme, body)
  \/ \E p \in iosPending, data \in EventPayloads, ok \in BOOLEAN :
       IosExecuteDone(p, data, ok)
  \/ \E ret \in ReturnValues : DispatchNext(ret)
  \/ DispatchEnd

SpecEvents == Init /\ [][NextEvents]_vars

\* the reserved name on one instance with one pending call: on() and off()
\* with any event name, messages that carry any event name
NextReserved ==
  \/ \E o \in RouterObjs :
       Construct(o, "", platform = "android", platform = "ios")
  \/ \E o \in RouterObjs, e \in EventNames, h \in Handlers :
       Len(ListenersOf(o, e)) < MaxListeners /\ On(o, e, h)
  \/ \E o \in RouterObjs, e \in EventNames, h \in Handlers \cup {NoHandler} :
       Off(o, e, h)
  \/ \E o \in RouterObjs, onOk \in SuccessCallbacks, onErr \in ErrorCallbacks :
       cntJSCallReqId = 0 /\ CallJSFunction(o, onOk, onErr, TRUE)
  \/ \E o \in RouterObjs, e \in EventNames,
        data \in ResponsePayloads(IssuedIds) \cup {Str(PlainObjText)} :
       AndroidOnWebViewEvent(o, e, data)
  \/ \E o \in RouterObjs, body \in IosBodies(EventNames) :
       Cardinality(iosPending) < MaxInFlight /\ IosIntercept(o, "js2ios:", body)
  \/ \E p \in iosPending,
        data \in ResponsePayloads(IssuedIds) \cup {Str(PlainObjText)} :
       IosExecuteDone(p, data, TRUE)
  \/ \E ret \in {Undefined} : DispatchNext(ret)
  \/ DispatchEnd

SpecReserved == Init /\ [][NextReserved]_vars

\* listeners of two events on one instance with one pending call: on() and
\* off() at top level and inside handlers, messages for both events
TwoEvents == UserEvents \cup {OtherEvent}
NextOff ==
  \/ \E o \in RouterObjs :
       Construct(o, "", platform = "android", platform = "ios")
  \/ \E o \in RouterObjs, e \in TwoEvents, h \in Handlers :
       Len(ListenersOf(o, e)) < MaxListeners /\ On(o, e, h)
  \/ \E o \in RouterObjs, e \in TwoEvents, h \in Handlers \cup {NoHandler} :
       Off(o, e, h)
  \/ \E o \in RouterObjs, onOk \in SuccessCallbacks, onErr \in ErrorCallbacks :
       cntJSCallReqId = 0 /\ CallJSFunction(o, onOk, onErr, TRUE)
  \/ \E o \in RouterObjs, e \in TwoEvents :
       AndroidOnWebViewEvent(o, e, Str(PlainObjText))
  \/ \E o \in RouterObjs, body \in IosBodies(TwoEvents) :
       Cardinality(iosPending) < MaxInFlight /\ IosIntercept(o, "js2ios:", body)
  \/ \E p \in iosPending : IosExecuteDone(p, Str(PlainObjText), TRUE)
  \/ DispatchNext(Undefined)
  \/ DispatchEnd

SpecOff == Init /\ [][NextOff]_vars

\* start-up of one instance: the web view is loaded at construction or
\* later, with or without a navigation target; emit and callJSFunction at any
\* time
Targets == {"", "page.html"}
NextReady ==
  \/ \E o \in RouterObjs, src \in Targets, b \in BOOLEAN :
       Construct(o, src, platform = "android" /\ b, platform = "ios" /\ b)
  \/ \E o \in RouterObjs : AndroidLoaded(o)
  \/ \E o \in RouterObjs :
       Emit(o, <<"p", "i", "n", "g">>, CodecValue("number", <<"1">>))
  \/ \E o \in RouterObjs, onOk \in SuccessCallbacks, onErr \in ErrorCallbacks,
        execOk \in BOOLEAN :
       cntJSCallReqId < MaxReqs /\ CallJSFunction(o, onOk, onErr, execOk)
  \/ \E o \in RouterObjs : Destroy(o)

SpecReady == Init /\ [][NextReady]_vars

\* the iOS pull model on one instance: urls of both schemes with bodies that
\* are requests (plain or with escaped braces), other JSON, no JSON or
\* malformed; round trips that resolve or fail
EscapedReqText ==
  <<"%7B", KeyEventName>> \o StringifyPair(<<"string", <<"ping">>>>)
    \o <<KeyResId>> \o StringifyPair(<<"number", <<"1">>>>) \o <<"%7D">>
PullBodies == IosBodies(UserEvents) \cup {EscapedReqText, <<"1">>, <<"%">>}
PullResults == {Str(PlainObjText)}
NextPull ==
  \/ \E o \in RouterObjs, b \in BOOLEAN :
       Construct(o, "", platform = "android", platform = "ios" /\ b)
  \/ \E o \in RouterObjs, e \in UserEvents, h \in Handlers :
       Len(ListenersOf(o, e)) < 1 /\ On(o, e, h)
  \/ \E o \in RouterObjs : Destroy(o)
  \/ \E o \in RouterObjs, scheme \in IosSchemes, body \in PullBodies :
       Cardinality(iosPending) < MaxInFlight /\ IosIntercept(o, scheme, body)
  \/ \E p \in iosPending, data \in PullResults, ok \in BOOLEAN :
       IosExecuteDone(p, data, ok)
  \/ DispatchNext(Undefined)
  \/ DispatchEnd

SpecPull == Init /\ [][NextPull]_vars

\* the emission codec: the first emit of one instance, with every event name
\* and every payload
NextCodec ==
  \/ \E o \in RouterObjs :
       Construct(o, "", platform = "android", platform = "ios")
  \/ \E o \in RouterObjs, e \in CodecEventNames, p \in CodecPayloads :
       executed = {} /\ Emit(o, e, p)

SpecCodec == Init /\ [][NextCodec]_vars

\* routing between instances: every instance registers a handler of its own
\* for the same event and issues calls; messages carry that event or a
\* response envelope for any request id issued so far
HandlerNames == <<"h1", "h2", "h3", "h4">>
OwnHandler(o) == HandlerNames[o]
RoutedPayloads == ResponsePayloads(IssuedIds) \cup {Str(PlainObjText)}
NextRouting ==
  \/ \E o \in Objs : Construct(o, "", platform = "android", platform = "ios")
  \/ \E o \in Objs, e \in UserEvents :
       Len(ListenersOf(o, e)) < 1 /\ On(o, e, OwnHandler(o))
  \/ \E o \in Objs, onOk \in SuccessCallbacks, onErr \in ErrorCallbacks :
       cntJSCallReqId < MaxReqs /\ CallJSFunction(o, onOk, onErr, TRUE)
  \/ \E o \in Objs : Destroy(o)
  \/ \E o \in Objs, e \in EventNames, data \in RoutedPayloads :
       AndroidOnWebViewEvent(o, e, data)
  \/ \E o \in Objs, body \in IosBodies(EventNames) :
       Cardinality(iosPending) < MaxInFlight /\ IosIntercept(o, "js2ios:", body)
  \/ \E p \in iosPending, data \in RoutedPayloads : IosExecuteDone(p, data, TRUE)
  \/ DispatchNext(Undefined)
  \/ DispatchEnd

SpecRouting == Init /\ [][NextRouting]_vars

TypeOK ==
  /\ platform \in {"android", "ios"}
  /\ cntWebViewId \in 0..MaxInstances
  /\ cntJSCallReqId \in 0..MaxReqs
  /\ constructed \subseteq Objs

\* ------------------------------------------------------------- claims
Count(seq, P(_)) == Cardinality({k \in 1..Len(seq) : P(seq[k])})

\* the message in hand is a response envelope delivered to the instance on
\* which the request id it names was pending
ResponseForPending ==
  /\ disp.active
  /\ disp.obj # 0
  /\ disp.event = Reserved
  /\ disp.wasPending

\* C1: a response envelope for a pending request id invokes the success
\* handler once with the response and never the error handler when isError is
\* false, and the error handler once and never the success handler when it is
\* true.
C1_ResponseInvokesHandler ==
  ResponseForPending =>
    /\ Len(trace) = 1
    /\ trace[1].arg = FromPair(disp.oData.response)
    /\ trace[1].fn \in IF Truthy(FromPair(disp.oData.isError))
                       THEN ErrorCallbacks ELSE SuccessCallbacks

\* C2: over any sequence of response deliveries, the handlers registered for
\* one request id are invoked at most once in total.
C2_AtMostOnce ==
  \A i, j \in 1..Len(cbLog) : cbLog[i][1] = cbLog[j][1] => i = j

\* a second response that names the one request id issued so far, still pending
C2_Witness == ResponseForPending /\ disp.repeat /\ Len(issued) = 1

\* C3: once a response envelope for request id r was delivered to the instance
\* that issued r, neither callback map of that instance has an entry for r.
C3_ResponseRemovesEntry ==
  ResponseForPending =>
    /\ ~MapHas(jsCallReqIdSuccessCallbackMap[disp.obj], disp.oData.reqId[2])
    /\ ~MapHas(jsCallReqIdErrorCallbackMap[disp.obj], disp.oData.reqId[2])

\* C4: no request id is issued twice, and every pending entry of every
\* instance is a request id issued once, to that instance (so no two pending
\* entries, in one instance or in two, share a request id).
C4_UniqueRequestIds ==
  /\ \A i, j \in 1..Len(issued) : issued[i][1] = issued[j][1] => i = j
  /\ \A o \in Objs :
       \A r \in MapKeys(jsCallReqIdSuccessCallbackMap[o])
                  \cup MapKeys(jsCallReqIdErrorCallbackMap[o]) :
         /\ Count(issued, LAMBDA x : x[1] = r) = 1
         /\ \E k \in 1..Len(issued) : issued[k] = <<r, o>>
  /\ \A o \in Objs :
       /\ Cardinality(MapKeys(jsCallReqIdSuccessCallbackMap[o]))
            = Cardinality(jsCallReqIdSuccessCallbackMap[o])
       /\ Cardinality(MapKeys(jsCallReqIdErrorCallbackMap[o]))
            = Cardinality(jsCallReqIdErrorCallbackMap[o])

\* calls are pending on two instances at once
C4_Witness ==
  \E o1, o2 \in Objs :
    /\ o1 # o2
    /\ jsCallReqIdSuccessCallbackMap[o1] # {}
    /\ jsCallReqIdSuccessCallbackMap[o2] # {}

\* C5: after destroy() the id map has no entry for the instance's id, and a
\* message that arrives for the instance afterwards invokes no handler that was
\* registered before the destroy.
C5_NoDispatchAfterDestroy ==
  /\ \A o \in destroyed :
       /\ ~MapHas(webViewInterfaceIdMap, id[o])
       /\ \A p \in webViewInterfaceIdMap : p[2] # o
  /\ (disp.active /\ disp.afterDestroy) =>
       \A k \in 1..Len(trace) : trace[k].late

\* a message arrives for the id of a destroyed instance that had handlers for
\* its event when it was destroyed
C5_Witness ==
  \E o \in destroyed :
    /\ disp.active
    /\ disp.webViewId = id[o]
    /\ disp.event \in destroyedWith[o]

\* C6: once destroy() was called on an instance, it invokes no event handler
\* and no call callback any more.
C6_DestroyedIsTerminal ==
  \A k \in 1..Len(trace) : ~trace[k].dead

\* what JSON decoding makes of a payload: the parsed value of valid JSON text,
\* the payload itself otherwise
Decoded(data) == IF IsJSON(data.c) THEN JSONparse(data.c) ELSE data

\* C7: a handler registered once for an event other than the reserved one is
\* invoked exactly once by one inbound message, with the JSON-decoded payload
\* when the payload is valid JSON (also when it decodes to 0, false, null or
\* "") and with the raw payload otherwise.
C7_HandlerGetsDecodedPayload ==
  (disp.active /\ disp.obj # 0 /\ disp.event # Reserved) =>
    /\ \A k \in 1..Len(trace) : trace[k].arg = Decoded(disp.data)
    /\ (Len(disp.list) = 1 /\ ~disp.reentered /\ disp.idx > 1) =>
         /\ Len(trace) = 1
         /\ trace[1].fn = disp.list[1].h

\* the dispatch in hand
Dispatching(d) == d.active /\ d.obj # 0 /\ d.event # Reserved

\* C8: a dispatch invokes the handlers of the event in registration order,
\* stops after a handler that returned false, goes on after any other return
\* value, and returns only after a false or after the last handler.
C8_DispatchOrder ==
  [][/\ Dispatching(disp') =>
          /\ Len(trace') = disp'.idx - 1
          /\ Len(trace') <= Len(disp'.list)
          /\ \A k \in 1..Len(trace') : trace'[k].fn = disp'.list[k].h
          /\ disp'.broken <=> (Len(trace') > 0 /\ disp'.lastRet = False)
          /\ ~disp'.reentered =>
               disp'.list = eventListenerMap'[disp'.obj][disp'.event]
     /\ (Dispatching(disp) /\ ~disp'.active) =>
          (disp.broken \/ Len(trace) = Len(disp.list))
     /\ (Dispatching(disp) /\ Len(trace') > Len(trace) /\ Len(trace) > 0) =>
          disp.lastRet # False]_vars

\* both of two handlers were invoked, in registration order, and the second
\* returned a falsy value other than false
C8_Witness ==
  /\ Dispatching(disp)
  /\ ~disp.reentered
  /\ Len(disp.list) = 2
  /\ Len(trace) = 2
  /\ trace[1].fn # trace[2].fn
  /\ ~disp.broken
  /\ ~Truthy(disp.lastRet)

\* C9: on() and off() with the reserved name throw and leave the listener map
\* and both callback maps as they were; no handler is ever stored under the
\* reserved name nor invoked for it.
C9_ReservedNameRejected ==
  [][/\ (\E o \in Objs, h \in Handlers \cup {NoHandler} :
           On(o, Reserved, h) \/ Off(o, Reserved, h)) =>
          /\ thrown' = "Error"
          /\ UNCHANGED <<eventListenerMap, jsCallReqIdSuccessCallbackMap,
                         jsCallReqIdErrorCallbackMap>>
     /\ \A o \in Objs : eventListenerMap'[o][Reserved] = <<>>
     /\ (disp'.active /\ disp'.event = Reserved) =>
          \A k \in 1..Len(trace') : trace'[k].fn \notin Handlers]_vars

\* the reserved name was just rejected on an instance that has a listener and
\* a pending call
C9_Witness ==
  \E o \in Objs :
    /\ thrown = "Error"
    /\ ListenersOf(o, "ping") # <<>>
    /\ jsCallReqIdSuccessCallbackMap[o] # {}

\* C10: a call whose injection failed invokes neither of its handlers, and its
\* entry stays in both callback maps as long as the instance is not destroyed.
C10_FailedInjectionLeaks ==
  [][/\ execFailed' # execFailed => (trace' = trace /\ cbLog' = cbLog)
     /\ \A k \in 1..Len(issued') :
          (issued'[k][1] \in execFailed' /\ issued'[k][2] \notin destroyed') =>
            /\ MapHas(jsCallReqIdSuccessCallbackMap'[issued'[k][2]], issued'[k][1])
            /\ MapHas(jsCallReqIdErrorCallbackMap'[issued'[k][2]], issued'[k][1])
     /\ \A k \in 1..Len(cbLog') : cbLog'[k][1] \notin execFailed']_vars

\* a response naming a request whose injection failed is delivered to the
\* live instance that issued it
C10_Witness ==
  /\ ResponseForPending
  /\ disp.oData.reqId[2] \in execFailed
  /\ disp.obj \notin destroyed

\* the message just taken in hand is a response envelope
EnvelopeArrives ==
  /\ ~disp.active
  /\ disp'.active
  /\ disp'.event = Reserved
  /\ IsEnvelopeText(disp'.data.c)

\* C11: destroy() empties both pending-call maps and invokes no handler; a
\* response envelope that arrives for a destroyed instance, or that names a
\* request id without an entry, invokes no handler, raises no error and
\* changes no map.
C11_DestroyDiscardsPending ==
  [][/\ \A o \in Objs :
          Destroy(o) =>
            /\ jsCallReqIdSuccessCallbackMap'[o] = {}
            /\ jsCallReqIdErrorCallbackMap'[o] = {}
            /\ trace' = trace
            /\ cbLog' = cbLog
     /\ (EnvelopeArrives
          /\ (disp'.obj = 0 \/ disp'.afterDestroy \/ ~disp'.wasPending)) =>
          /\ trace' = <<>>
          /\ cbLog' = cbLog
          /\ thrown' = "none"
          /\ UNCHANGED <<eventListenerMap, jsCallReqIdSuccessCallbackMap,
                         jsCallReqIdErrorCallbackMap>>]_vars

\* an envelope is in hand on a destroyed instance; it names the one request
\* id ever issued, which went to this instance and has no entry any more
C11_Witness ==
  /\ disp.active
  /\ disp.event = Reserved
  /\ disp.obj \in destroyed
  /\ disp.afterDestroy
  /\ Len(issued) = 1
  /\ issued[1][2] = disp.obj
  /\ IsEnvelopeText(disp.data.c)
  /\ disp.oData.reqId[2] = issued[1][1]
  /\ jsCallReqIdSuccessCallbackMap[disp.obj] = {}

\* list without the entries of handler h, the others in their order
Without(list, h) == SelectSeq(list, LAMBDA x : x.h # h)

IssuedTo(r) ==
  IF \E k \in 1..Len(issued) : issued[k][1] = r
  THEN (CHOOSE x \in {issued[k] : k \in 1..Len(issued)} : x[1] = r)[2]
  ELSE 0

\* a step of an inbound message: it is taken in hand, or its dispatch calls
\* the next handler
MessageStep ==
  \/ ~disp.active /\ disp'.active
  \/ disp.active /\ disp'.active /\ Len(trace') > Len(trace)

\* C13: a message whose instance id is not in the id map when it arrives has
\* nothing to invoke (no callback, no handler to iterate); a message
\* delivered to one instance invokes only handlers and callbacks of
\* that instance and changes no listener or pending-call map of another
\* instance.
C13_MessagesStayWithInstance ==
  [][/\ (/\ ~disp.active
          /\ disp'.active
          /\ ~MapHas(webViewInterfaceIdMap, disp'.webViewId)) =>
          (trace' = <<>> /\ cbLog' = cbLog /\ disp'.list = <<>>)
     /\ MessageStep =>
          /\ \A k \in 1..Len(trace') :
               trace'[k].fn \in {OwnHandler(disp'.obj)} \cup SuccessCallbacks
                                 \cup ErrorCallbacks
          /\ \A k \in Len(cbLog) + 1..Len(cbLog') :
               IssuedTo(SubSeq(cbLog'[k][1], 2, Len(cbLog'[k][1]) - 1))
                 = disp'.obj
          /\ \A b \in Objs \ {disp'.obj} :
               /\ eventListenerMap'[b] = eventListenerMap[b]
               /\ jsCallReqIdSuccessCallbackMap'[b]
                    = jsCallReqIdSuccessCallbackMap[b]
               /\ jsCallReqIdErrorCallbackMap'[b]
                    = jsCallReqIdErrorCallbackMap[b]]_vars

\* C14: on Android with a web view that is not loaded at construction, emit
\* and callJSFunction hand no script to the executor before the web view is
\* ready, and once it is ready the navigation target given at construction
\* is loaded.
C14_OutboundWaitsForReady ==
  /\ \A x \in executed : x.ready
  /\ \A o \in constructed \ destroyed :
       (platform = "android" /\ webView[o].jsInterface
          /\ webView[o].srcArg # "") =>
         webView[o].src = webView[o].srcArg

\* C15: an instance keeps its id, a new instance gets an id greater than the
\* id of every instance constructed before it (destroyed or not), and no two
\* instances ever have the same id.
C15_IdsIncreaseAndStay ==
  [][/\ \A o \in constructed : id'[o] = id[o]
     /\ \A o \in constructed' \ constructed :
          \A p \in constructed : id'[o] > id[p]
     /\ \A o, p \in constructed' : o # p => id'[o] # id'[p]]_vars

\* a later instance exists next to an earlier one that was destroyed
C15_Witness ==
  \E o, p \in constructed :
    /\ o < p
    /\ o \in destroyed
    /\ p \notin destroyed
    /\ id[o] < id[p]

\* C16: the script emit builds for event name e and payload p decodes, by
\* evaluating its two string literals and JSON-parsing the second, to e and
\* to a value equal to p, also when p holds quote characters.
C16_EmitRoundTrip ==
  [][\A o \in Objs, e \in CodecEventNames, p \in CodecPayloads :
       Emit(o, e, p) =>
         DecodeEmitScript(lastScript') = [eventName |-> e, payload |-> p]]_vars

\* the script of an emit whose payload is a string with a quote character and
\* a backslash
C16_Witness ==
  /\ executed # {}
  /\ \E e \in CodecEventNames :
       lastScript = PrepareEmitEventJSCall(e, CodecValue("string", <<Quote, Backslash>>))

\* C17: on Android the assignment of the navigation target to src comes
\* after the interface object was added, happens at most once per instance
\* and never when no target was given.
C17_SrcAfterInterface ==
  platform = "android" =>
    \A o \in constructed :
      /\ ~webView[o].srcEarly
      /\ webView[o].srcSets <= 1
      /\ webView[o].srcSets = 1 => webView[o].jsInterface
      /\ webView[o].srcArg = "" =>
           (webView[o].srcSets = 0 /\ webView[o].src = "")

\* the loaded event came after destroy() had reset src, and set the target
C17_Witness ==
  \E o \in destroyed :
    /\ platform = "android"
    /\ webView[o].srcSets = 1
    /\ webView[o].jsInterface
    /\ webView[o].src = "page.html"

\* the decoded body of a url is valid JSON
BodyIsJSON(body) == ~Malformed(body) /\ IsJSON(DecodeURIComponent(body))

\* the decoded body of a url is JSON for a value other than 0, false, null
\* and ""
BodyIsTruthyJSON(body) ==
  BodyIsJSON(body) /\ Truthy(JSONparse(DecodeURIComponent(body)))

\* the event name a request body asks for
RequestedEvent(body) ==
  EventNameOf(JSONparse(DecodeURIComponent(body)).eventName)

\* the pull model, for the requests that qualify: a qualifying url starts
\* one round trip for its event and dispatches nothing by itself, any other
\* url starts none; a round trip ends once, with one dispatch of its event
\* and result when it succeeds and with none when it fails; on iOS no
\* message is taken in hand except by the end of a round trip
PullRule(qualifies(_)) ==
  /\ \A o \in Objs, scheme \in IosSchemes, body \in PullBodies :
       IosIntercept(o, scheme, body) =>
         /\ disp' = disp
         /\ trace' = trace
         /\ IF scheme = "js2ios:" /\ qualifies(body)
            THEN \E p \in iosPending' \ iosPending :
                   /\ iosPending' = iosPending \cup {p}
                   /\ p.obj = o
                   /\ p.eventName = RequestedEvent(body)
            ELSE iosPending' = iosPending
  /\ \A p \in iosPending, data \in PullResults, ok \in BOOLEAN :
       IosExecuteDone(p, data, ok) =>
         /\ iosPending' = iosPending \ {p}
         /\ ok => /\ disp'.active
                  /\ disp'.obj = p.obj
                  /\ disp'.event = p.eventName
                  /\ disp'.data = data
         /\ ~ok => (disp' = disp /\ trace' = trace)
  /\ (platform = "ios" /\ ~disp.active /\ disp'.active) =>
       \E p \in iosPending : p \notin iosPending'

\* C18: on iOS every js2ios: url whose decoded body is valid JSON starts
\* exactly one round trip, whose success dispatches the requested event
\* with the pulled result exactly once; other urls start no round trip and
\* dispatch nothing, and a failed round trip dispatches nothing.
C18_PullModel == [][PullRule(BodyIsJSON)]_vars

\* C18 for the bodies the interceptor accepts: the same with "valid JSON for
\* a value other than 0, false, null and the empty string" in place of
\* "valid JSON".
C18_PullModelTruthy == [][PullRule(BodyIsTruthyJSON)]_vars

\* a handler runs for a message that a round trip has pulled
C18_Witness ==
  /\ platform = "ios"
  /\ Dispatching(disp)
  /\ disp.data \in PullResults
  /\ Len(trace) = 1

\* C19: the array a dispatch iterates is the handler list of the event as it
\* stood when the message arrived: it stays the same until the dispatch
\* returns, whatever on(), off() or destroy() a handler performs, and the
\* handlers invoked are its handlers, in order; those calls show in the list
\* the next message starts from.
C19_DispatchUsesSnapshot ==
  [][/\ (Dispatching(disp) /\ disp'.active) => disp'.list = disp.list
     /\ (~disp.active /\ Dispatching(disp')) =>
          disp'.list = ListenersOf(disp'.obj, disp'.event)
     /\ Dispatching(disp') =>
          \A k \in 1..Len(trace') : trace'[k].fn = disp'.list[k].h]_vars

SuccessKeys(o) == MapKeys(jsCallReqIdSuccessCallbackMap[o])
ErrorKeys(o) == MapKeys(jsCallReqIdErrorCallbackMap[o])

\* C20: the two callback maps of an instance always have the same request
\* ids as keys: callJSFunction puts the new id into both (also when the
\* injection fails), the handling of a response takes the same ids out of
\* both, and destroy() empties both.
C20_SameKeysInBothMaps ==
  [][/\ \A o \in Objs :
          /\ SuccessKeys(o) = ErrorKeys(o)
          /\ SuccessKeys(o)' = ErrorKeys(o)'
     /\ \A o \in Objs, onOk \in SuccessCallbacks, onErr \in ErrorCallbacks,
           execOk \in BOOLEAN :
          CallJSFunction(o, onOk, onErr, execOk) =>
            /\ NextReqId(o) \in SuccessKeys(o)'
            /\ NextReqId(o) \in ErrorKeys(o)'
     /\ \A o \in Objs :
          Destroy(o) => (SuccessKeys(o)' = {} /\ ErrorKeys(o)' = {})
     /\ EnvelopeArrives =>
          \A o \in Objs :
            SuccessKeys(o) \ SuccessKeys(o)' = ErrorKeys(o) \ ErrorKeys(o)']_vars

\* a response envelope is in hand on an instance with two pending calls
C20_Witness ==
  /\ ResponseForPending
  /\ Cardinality(SuccessKeys(disp.obj)) = 2
  /\ Cardinality(ErrorKeys(disp.obj)) = 2

====
